---------------------------- MODULE Spec2Model ----------------------------
(***************************************************************************)
(* A model of the marksman Resy client: the ResyAPIGateway (five one-shot  *)
(* HTTP operations sharing setup_headers and process_response) and the     *)
(* ResyClient facade's venue-slug extraction.                              *)
(*                                                                         *)
(* Rust strings are modelled as sequences of bytes (integers 0..255), so   *)
(* that byte indices, UTF-8 character boundaries, header-value validity    *)
(* and percent-encoding are computed as the code computes them.            *)
(***************************************************************************)
EXTENDS Integers, Sequences, FiniteSets, TLC

VARIABLES
    \* ---- ResyClient (resy_client.rs) ----
    venue_id,      \* ResyClient.venue_id
    url_arg,       \* the URL the caller passes to get_venue_id
    venue_slug,    \* get_venue_id's local `venue_slug`: [ok, val]
    stdout,        \* the last line printed
    \* ---- ResyAPIGateway (resy_api_gateway.rs) ----
    api_key,       \* ResyAPIGateway.api_key
    auth_token,    \* ResyAPIGateway.auth_token
    pc,            \* position of the current call
    call,          \* the operation invoked and its arguments
    request,       \* the HTTP request handed to send()
    sends,         \* how many times the current call invoked send()
    response,      \* the HTTP response as far as the call has consumed it
    result         \* what the call returned to its caller

clientVars  == <<venue_id, url_arg, venue_slug, stdout>>
gatewayVars == <<api_key, auth_token, pc, call, request, sends, response, result>>
vars        == <<venue_id, url_arg, venue_slug, stdout,
                 api_key, auth_token, pc, call, request, sends, response, result>>

-----------------------------------------------------------------------------
(* Bounds of the model.                                                    *)

\* A URL is a concatenation of at most MaxParts fragments.
MaxParts == 4
\* A book token has at most MaxTokenLen characters.
MaxTokenLen == 2
\* JSON values nest at most MaxJsonDepth deep.
MaxJsonDepth == 1

-----------------------------------------------------------------------------
(* Byte strings.                                                           *)

\* The concatenation of a sequence of byte strings.
RECURSIVE Concat(_)
Concat(ss) == IF ss = <<>> THEN <<>> ELSE Head(ss) \o Concat(Tail(ss))

\* s[a..b) in Rust's 0-based half-open byte indexing.
Bytes(s, a, b) == SubSeq(s, a + 1, b)

\* str::is_char_boundary: 0 and len are boundaries; inside the string a
\* boundary is any byte that is not a UTF-8 continuation byte (10xxxxxx).
is_char_boundary(s, i) ==
    \/ i = 0
    \/ i = Len(s)
    \/ /\ 0 < i
       /\ i < Len(s)
       /\ ~(s[i + 1] >= 128 /\ s[i + 1] < 192)

\* str::find with a string pattern, scanning from byte index i: the byte
\* index of the first match at or after i, or -1 for None.
RECURSIVE find_from(_, _, _)
find_from(s, pat, i) ==
    IF i + Len(pat) > Len(s) THEN -1
    ELSE IF Bytes(s, i, i + Len(pat)) = pat THEN i
    ELSE find_from(s, pat, i + 1)

find(s, pat) == find_from(s, pat, 0)

\* Indexing a str by a range: panics unless start <= end <= len and both
\* ends lie on character boundaries.
slice_ok(s, a, b) ==
    /\ 0 <= a
    /\ a <= b
    /\ b <= Len(s)
    /\ is_char_boundary(s, a)
    /\ is_char_boundary(s, b)

\* The result of an expression that may panic.
Value(v) == [ok |-> TRUE, val |-> v]
Panic    == [ok |-> FALSE, val |-> <<>>]

slice(s, a, b) == IF slice_ok(s, a, b) THEN Value(Bytes(s, a, b)) ELSE Panic

-----------------------------------------------------------------------------
(* resy_client.rs                                                          *)

\* "venues/"
VenuesMarker == <<118, 101, 110, 117, 101, 115, 47>>
\* '?'
QuestionMark == <<63>>

unwrap_or_len(found, s) == IF found = -1 THEN Len(s) ELSE found

\* extract_venue_slug searching the '?' in the whole URL, not in the tail.
extract_venue_slug_whole_find(url) ==
    LET found == find(url, VenuesMarker) IN
    IF found # -1
    THEN LET start == found + Len(VenuesMarker)
             end   == unwrap_or_len(find(url, QuestionMark), url)
         IN  slice(url, start, start + end)
    ELSE Value(<<>>)

\* str::rfind: the byte index of the last match, or -1.
RECURSIVE rfind_from(_, _, _)
rfind_from(s, pat, i) ==
    IF i < 0 THEN -1
    ELSE IF i + Len(pat) <= Len(s) /\ Bytes(s, i, i + Len(pat)) = pat THEN i
    ELSE rfind_from(s, pat, i - 1)

\* extract_venue_slug starting after the last "venues/", not the first.
extract_venue_slug_rfind(url) ==
    LET found == rfind_from(url, VenuesMarker, Len(url)) IN
    IF found # -1
    THEN LET start == found + Len(VenuesMarker)
             tail  == slice(url, start, Len(url))
         IN  IF ~tail.ok THEN Panic
             ELSE LET end == unwrap_or_len(find(tail.val, QuestionMark), tail.val)
                  IN  slice(url, start, start + end)
    ELSE Value(<<>>)

extract_venue_slug(url) ==
    LET found == find(url, VenuesMarker) IN
    IF found # -1
    THEN LET start == found + Len(VenuesMarker)
             tail  == slice(url, start, Len(url))
         IN  IF ~tail.ok THEN Panic
             ELSE LET end == unwrap_or_len(find(tail.val, QuestionMark), tail.val)
                  IN  slice(url, start, start + end)
    ELSE Value(<<>>)

\* "Extracted ID based on URL"
PlaceholderVenueId == "Extracted ID based on URL"

\* The fragments URLs are built from: "venues/", "venues", "s/", "a", "?",
\* "#", "/" and the two-byte character "é".
UrlFragments ==
    { VenuesMarker, <<118, 101, 110, 117, 101, 115>>, <<115, 47>>, <<97>>,
      <<63>>, <<35>>, <<47>>, <<195, 169>> }

\* The two URLs of the documented examples.
ExampleUrls ==
    { <<104, 116, 116, 112, 115, 58, 47, 47, 114, 101, 115, 121, 46, 99, 111,
        109, 47, 99, 105, 116, 105, 101, 115, 47, 110, 121, 47, 118, 101, 110,
        117, 101, 115, 47, 97, 98, 99, 45, 98, 105, 115, 116, 114, 111, 63,
        100, 97, 116, 101, 61, 50, 48, 50, 52, 45, 48, 49, 45, 48, 49>>,
      <<104, 116, 116, 112, 115, 58, 47, 47, 114, 101, 115, 121, 46, 99, 111,
        109, 47, 99, 105, 116, 105, 101, 115, 47, 110, 121, 47, 114, 101, 115,
        116, 97, 117, 114, 97, 110, 116, 115, 47, 97, 98, 99, 45, 98, 105,
        115, 116, 114, 111>> }

PartLists == UNION { [1..n -> UrlFragments] : n \in 0..MaxParts }

Urls == { Concat(ps) : ps \in PartLists } \cup ExampleUrls

\* ResyClient::new
ClientNew ==
    /\ venue_id = ""
    /\ venue_slug = Value(<<>>)
    /\ stdout = <<>>

\* ResyClient::get_venue_id, called with the URL the caller holds. A panic
\* in extract_venue_slug unwinds before venue_id is assigned.
get_venue_id ==
    /\ venue_slug.ok
    /\ venue_slug' = extract_venue_slug(url_arg)
    /\ IF venue_slug'.ok
       THEN /\ venue_id' = PlaceholderVenueId
            /\ stdout' = <<"Venue ID set to: ", venue_id'>>
       ELSE UNCHANGED <<venue_id, stdout>>
    /\ UNCHANGED <<url_arg, gatewayVars>>

\* ResyClient::check_reservations
check_reservations ==
    /\ venue_slug.ok
    /\ stdout' = <<"Checking reservations for Venue ID: ", venue_id>>
    /\ UNCHANGED <<venue_id, url_arg, venue_slug, gatewayVars>>

\* ResyClient::get_slots
get_slots ==
    /\ venue_slug.ok
    /\ stdout' = <<"Getting slots for Venue ID: ", venue_id>>
    /\ UNCHANGED <<venue_id, url_arg, venue_slug, gatewayVars>>

-----------------------------------------------------------------------------
(* resy_api_gateway.rs: values of the libraries the gateway is built on    *)

RESY_API_BASE_URL == "https://api.resy.com"

\* Decimal digits of a natural number, as Display prints an integer.
RECURSIVE digits(_)
digits(n) == IF n < 10 THEN <<48 + n>> ELSE digits(n \div 10) \o <<48 + (n % 10)>>

\* Display of an i32.
i32_to_string(n) == IF n < 0 THEN <<45>> \o digits(0 - n) ELSE digits(n)

\* HeaderValue::from_str accepts a string iff every byte is a tab or is at
\* least 32 and not DEL.
is_valid_header_byte(b) == (b >= 32 /\ b # 127) \/ b = 9

HeaderValue_from_str(s) ==
    IF \A i \in 1..Len(s) : is_valid_header_byte(s[i]) THEN Value(s) ELSE Panic

\* urlencoding::encode: unreserved bytes (ASCII letters, digits, '-', '_',
\* '.', '~') are kept, every other byte becomes %XX in upper-case hex.
is_unreserved(b) ==
    \/ (b >= 48 /\ b <= 57)
    \/ (b >= 65 /\ b <= 90)
    \/ (b >= 97 /\ b <= 122)
    \/ b \in {45, 95, 46, 126}

hex_digit(d) == IF d < 10 THEN 48 + d ELSE 55 + d

encode_byte(b) ==
    IF is_unreserved(b) THEN <<b>> ELSE <<37, hex_digit(b \div 16), hex_digit(b % 16)>>

RECURSIVE urlencoding_encode(_)
urlencoding_encode(s) ==
    IF s = <<>> THEN <<>> ELSE encode_byte(Head(s)) \o urlencoding_encode(Tail(s))

\* StatusCode::is_success.
is_success(status) == status >= 200 /\ status < 300

\* StatusCode::canonical_reason for the statuses the model uses; Display
\* prints "<unknown status code>" where there is none.
canonical_reason(status) ==
    CASE status = 200 -> <<79, 75>>
      [] status = 300 -> <<77, 117, 108, 116, 105, 112, 108, 101, 32, 67,
                           104, 111, 105, 99, 101, 115>>
      [] status = 404 -> <<78, 111, 116, 32, 70, 111, 117, 110, 100>>
      [] OTHER        -> <<60, 117, 110, 107, 110, 111, 119, 110, 32, 115,
                           116, 97, 116, 117, 115, 32, 99, 111, 100, 101, 62>>

\* Display of a StatusCode: "<code> <reason>".
status_to_string(status) == digits(status) \o <<32>> \o canonical_reason(status)

-----------------------------------------------------------------------------
(* JSON (serde_json::Value), and response bodies as sequences of tokens.   *)

\* A Value in one shape: a tag, the text of a scalar, and for an array its
\* elements, for an object its keys (sorted, as in serde_json's BTreeMap)
\* with the member values beside them.
JNull        == [t |-> "null", s |-> "null", keys |-> <<>>, items |-> <<>>]
JNum(tok)    == [t |-> "num", s |-> tok, keys |-> <<>>, items |-> <<>>]
JStr(tok)    == [t |-> "str", s |-> tok, keys |-> <<>>, items |-> <<>>]
JArr(a)      == [t |-> "arr", s |-> "", keys |-> <<>>, items |-> a]
JObj(ks, vs) == [t |-> "obj", s |-> "", keys |-> ks, items |-> vs]

\* String tokens: "a" and "b", quotes included, in key order.
KeyOrder     == <<"\"a\"", "\"b\"">>
StringTokens == {KeyOrder[i] : i \in 1..Len(KeyOrder)}
NumberTokens == {"1"}
EmptyMap     == [keys |-> <<>>, items |-> <<>>]

\* Map::insert: a member with a key already present replaces the old one.
map_insert(m, k, v) ==
    LET old(x)  == m.items[CHOOSE i \in 1..Len(m.keys) : m.keys[i] = x]
        present == {m.keys[i] : i \in 1..Len(m.keys)} \cup {k}
        ks      == SelectSeq(KeyOrder, LAMBDA x : x \in present)
    IN  [keys  |-> ks,
         items |-> [i \in 1..Len(ks) |-> IF ks[i] = k THEN v ELSE old(ks[i])]]

Parsed(v, next) == [ok |-> TRUE, val |-> v, next |-> next]
ParseError      == [ok |-> FALSE, val |-> JNull, next |-> 0]

\* serde_json's recursive-descent parser over the token stream: a value
\* starting at token i, with the index of the token after it.
RECURSIVE parse_value(_, _), parse_elements(_, _, _), parse_members(_, _, _)
parse_value(toks, i) ==
    IF i > Len(toks) THEN ParseError
    ELSE CASE toks[i] = "null" -> Parsed(JNull, i + 1)
           [] toks[i] \in NumberTokens -> Parsed(JNum(toks[i]), i + 1)
           [] toks[i] \in StringTokens -> Parsed(JStr(toks[i]), i + 1)
           [] toks[i] = "[" ->
                IF i + 1 <= Len(toks) /\ toks[i + 1] = "]"
                THEN Parsed(JArr(<<>>), i + 2)
                ELSE parse_elements(toks, i + 1, <<>>)
           [] toks[i] = "{" ->
                IF i + 1 <= Len(toks) /\ toks[i + 1] = "}"
                THEN Parsed(JObj(<<>>, <<>>), i + 2)
                ELSE parse_members(toks, i + 1, EmptyMap)
           [] OTHER -> ParseError

parse_elements(toks, i, acc) ==
    LET e == parse_value(toks, i) IN
    IF ~e.ok \/ e.next > Len(toks) THEN ParseError
    ELSE IF toks[e.next] = "," THEN parse_elements(toks, e.next + 1, Append(acc, e.val))
    ELSE IF toks[e.next] = "]" THEN Parsed(JArr(Append(acc, e.val)), e.next + 1)
    ELSE ParseError

parse_members(toks, i, acc) ==
    IF i + 1 > Len(toks) \/ toks[i] \notin StringTokens \/ toks[i + 1] # ":"
    THEN ParseError
    ELSE LET m == parse_value(toks, i + 2) IN
         IF ~m.ok \/ m.next > Len(toks) THEN ParseError
         ELSE LET acc2 == map_insert(acc, toks[i], m.val) IN
              IF toks[m.next] = "," THEN parse_members(toks, m.next + 1, acc2)
              ELSE IF toks[m.next] = "}"
                   THEN Parsed(JObj(acc2.keys, acc2.items), m.next + 1)
              ELSE ParseError

\* Response::json: the whole body must be one JSON value.
response_json(body) ==
    LET r == parse_value(body, 1) IN
    IF r.ok /\ r.next = Len(body) + 1 THEN Parsed(r.val, r.next) ELSE ParseError

\* The text of a Value as the remote service writes it.
RECURSIVE JoinComma(_)
JoinComma(parts) ==
    IF parts = <<>> THEN <<>>
    ELSE IF Len(parts) = 1 THEN Head(parts)
    ELSE Head(parts) \o <<",">> \o JoinComma(Tail(parts))

RECURSIVE Serialize(_)
Serialize(v) ==
    CASE v.t \in {"null", "num", "str"} -> <<v.s>>
      [] v.t = "arr" ->
           <<"[">> \o JoinComma([i \in 1..Len(v.items) |-> Serialize(v.items[i])])
           \o <<"]">>
      [] v.t = "obj" ->
           <<"{">>
           \o JoinComma([i \in 1..Len(v.keys) |->
                            <<v.keys[i], ":">> \o Serialize(v.items[i])])
           \o <<"}">>

\* JSON values nested at most d deep.
RECURSIVE JsonValues(_)
JsonValues(d) ==
    IF d = 0 THEN {JNull, JNum("1"), JStr(KeyOrder[1])}
    ELSE LET sub == JsonValues(d - 1) IN
         sub
         \cup {JArr(<<>>), JObj(<<>>, <<>>)}
         \cup {JArr(<<JNull, JNum("1")>>), JObj(KeyOrder, <<JNum("1"), JNull>>)}
         \cup {JArr(<<v>>) : v \in sub}
         \cup {JObj(<<KeyOrder[2]>>, <<v>>) : v \in sub}

\* Bodies a 2xx response may carry: well-formed JSON texts, truncated ones,
\* and ones with a stray, a missing or a misplaced token.
ValidBodies == {Serialize(v) : v \in JsonValues(MaxJsonDepth)}
MalformedBodies ==
    UNION { {SubSeq(b, 1, n) : n \in 0..(Len(b) - 1)} : b \in ValidBodies }
      \cup {<<"1", "]">>, <<",", "1">>, <<"[", "]", "[", "]">>, <<"{", "}", "}">>}
      \cup {<<"[", "1", ",", "]">>, <<"{", "\"a\"", "1", "}">>,
            <<"{", "1", ":", "1", "}">>}
Bodies == ValidBodies \cup MalformedBodies

\* Statuses a response may carry, on both sides of each edge of 2xx.
Statuses == {199, 200, 299, 300, 404}

-----------------------------------------------------------------------------
(* resy_api_gateway.rs: the gateway                                        *)

\* The credentials the embedding caller may construct the gateway with:
\* "k<TAB>", "é", "k<LF>" and "t", "t<DEL>".
ApiKeys    == { <<107, 9>>, <<195, 169>>, <<107, 10>> }
AuthTokens == { <<116>>, <<116, 127>> }

\* Arguments the caller may pass.
VenueSlugs  == {"abc-bistro"}
VenueIds    == {"123"}
Days        == {"2024-01-01"}
PartySizes  == {2}
Commits     == {0, 1}
ConfigIds   == {"rgs://resy/1/2/3"}
PaymentIds  == {0, -12, 2147483647}
\* Characters of a book token: 'a', '&', '=', '%' and the two-byte "é".
BookTokenChars == { <<97>>, <<38>>, <<61>>, <<37>>, <<195, 169>> }
BookTokens ==
    { Concat(cs) : cs \in UNION { [1..n -> BookTokenChars] : n \in 0..MaxTokenLen } }

NoCall     == [op |-> "none"]
NoRequest  == [method |-> "none"]
NoResponse == [status |-> 0, body_read |-> FALSE, body |-> <<>>]
NoResult   == [tag |-> "none"]
Ok(v)      == [tag |-> "Ok", val |-> v]
Err(e)     == [tag |-> "Err", err |-> e]

\* ResyAPIGateway::new
GatewayNew(key, token) ==
    /\ api_key = key
    /\ auth_token = token
    /\ pc = "idle"
    /\ call = NoCall
    /\ request = NoRequest
    /\ sends = 0
    /\ response = NoResponse
    /\ result = NoResult

\* "ResyAPI api_key=\""
ApiKeyPrefix == <<82, 101, 115, 121, 65, 80, 73, 32, 97, 112, 105, 95, 107,
                  101, 121, 61, 34>>
\* "API request failed: "
FailedPrefix == <<65, 80, 73, 32, 114, 101, 113, 117, 101, 115, 116, 32, 102,
                  97, 105, 108, 101, 100, 58, 32>>
\* "book_token="
BookTokenField == <<98, 111, 111, 107, 95, 116, 111, 107, 101, 110, 61>>
\* "&struct_payment_method={\"id\":"
PaymentField == <<38, 115, 116, 114, 117, 99, 116, 95, 112, 97, 121, 109, 101,
                  110, 116, 95, 109, 101, 116, 104, 111, 100, 61, 123, 34, 105,
                  100, 34, 58>>
\* "application/json"
ApplicationJson == <<97, 112, 112, 108, 105, 99, 97, 116, 105, 111, 110, 47,
                     106, 115, 111, 110>>

\* setup_headers putting the API key where the auth token belongs.
setup_headers_key_as_token ==
    LET authorization == HeaderValue_from_str(ApiKeyPrefix \o api_key \o <<34>>)
        token         == HeaderValue_from_str(api_key)
    IN  IF ~authorization.ok \/ ~token.ok THEN Panic
        ELSE Value(("authorization" :> authorization.val)
                   @@ ("x-resy-auth-token" :> token.val))

\* setup_headers leaving out a header whose value is invalid instead of
\* unwrapping it.
setup_headers_skip_invalid ==
    LET authorization == HeaderValue_from_str(ApiKeyPrefix \o api_key \o <<34>>)
        token         == HeaderValue_from_str(auth_token)
        names         == (IF authorization.ok THEN {"authorization"} ELSE {})
                         \cup (IF token.ok THEN {"x-resy-auth-token"} ELSE {})
    IN  Value([n \in names |->
                  IF n = "authorization" THEN authorization.val ELSE token.val])

\* ResyAPIGateway::setup_headers: each unwrap panics on an invalid value.
setup_headers ==
    LET authorization == HeaderValue_from_str(ApiKeyPrefix \o api_key \o <<34>>)
        token         == HeaderValue_from_str(auth_token)
    IN  IF ~authorization.ok \/ ~token.ok THEN Panic
        ELSE Value(("authorization" :> authorization.val)
                   @@ ("x-resy-auth-token" :> token.val))

\* book_reservation's body with the token put in as it is.
book_body_raw(book_token, payment_id) ==
    BookTokenField \o book_token
    \o PaymentField \o i32_to_string(payment_id) \o <<125>>

\* The body of book_reservation's request.
book_body(book_token, payment_id) ==
    BookTokenField \o urlencoding_encode(book_token)
    \o PaymentField \o i32_to_string(payment_id) \o <<125>>

\* RequestBuilder::json sets the body and, if absent, the content type.
with_json(headers) ==
    IF "content-type" \in DOMAIN headers THEN headers
    ELSE headers @@ ("content-type" :> ApplicationJson)

\* The status error carrying the reason phrase alone.
status_error_reason_only(status) ==
    [type |-> "ResyAPIError", message |-> FailedPrefix \o canonical_reason(status)]

\* The error process_response builds from a non-success status.
status_error(status) ==
    [type |-> "ResyAPIError", message |-> FailedPrefix \o status_to_string(status)]

\* The reqwest::Error that `?` boxes unchanged into Box<dyn Error>.
reqwest_error(kind) == [type |-> "reqwest::Error", kind |-> kind]

\* What every operation does once its URL is formatted: build the headers
\* (which may panic), build the request and hand it to send(). A call
\* starts when the gateway is idle.
send_request(c, method, url, body) ==
    /\ call' = c
    /\ LET headers == setup_headers IN
       IF ~headers.ok
       THEN /\ pc' = "panicked"
            /\ UNCHANGED <<request, sends>>
       ELSE /\ request' = [method  |-> method,
                           url     |-> url,
                           headers |-> IF body.kind = "json"
                                       THEN with_json(headers.val)
                                       ELSE headers.val,
                           body    |-> body]
            /\ sends' = sends + 1
            /\ pc' = "sending"
    /\ UNCHANGED <<api_key, auth_token, response, result, clientVars>>

NoBody == [kind |-> "none"]

get_user ==
    /\ pc = "idle"
    /\ send_request([op |-> "get_user"], "GET",
                    <<RESY_API_BASE_URL, "/2/user">>, NoBody)

get_venue(slug) ==
    /\ pc = "idle"
    /\ send_request([op |-> "get_venue", venue_slug |-> slug], "GET",
                    <<RESY_API_BASE_URL, "/3/venue?url_slug=", slug,
                      "&location=new-york-ny">>,
                    NoBody)

find_reservation(id, day, party_size) ==
    /\ pc = "idle"
    /\ send_request([op |-> "find_reservation", venue_id |-> id, day |-> day,
                     party_size |-> party_size], "GET",
                    <<RESY_API_BASE_URL, "/4/find?lat=0&long=0&day=", day,
                      "&party_size=", ToString(party_size), "&venue_id=", id>>,
                    NoBody)

get_reservation_details(commit, config_id, party_size, day) ==
    /\ pc = "idle"
    /\ send_request([op |-> "get_reservation_details", commit |-> commit,
                     config_id |-> config_id, party_size |-> party_size,
                     day |-> day],
                    "POST", <<RESY_API_BASE_URL, "/3/details">>,
                    [kind |-> "json",
                     data |-> [commit |-> commit, config_id |-> config_id,
                               day |-> day, party_size |-> party_size]])

book_reservation(book_token, payment_id) ==
    /\ pc = "idle"
    /\ send_request([op |-> "book_reservation", book_token |-> book_token,
                     payment_id |-> payment_id],
                    "POST", <<RESY_API_BASE_URL, "/3/book">>,
                    [kind |-> "raw", data |-> book_body(book_token, payment_id)])

\* A send failure answered by sending the request again.
SendFails_retry ==
    /\ pc = "sending"
    /\ sends' = sends + 1
    /\ UNCHANGED <<api_key, auth_token, pc, call, request, response, result, clientVars>>

\* A send failure converted into a ResyAPIError before it is returned.
SendFails_converted ==
    /\ pc = "sending"
    /\ result' = Err([type |-> "ResyAPIError", message |-> <<>>])
    /\ pc' = "done"
    /\ UNCHANGED <<api_key, auth_token, call, request, sends, response, clientVars>>

\* send().await fails: `?` returns the error to the caller.
SendFails ==
    /\ pc = "sending"
    /\ result' = Err(reqwest_error("request"))
    /\ pc' = "done"
    /\ UNCHANGED <<api_key, auth_token, call, request, sends, response, clientVars>>

\* send().await yields a response with this status; process_response runs
\* up to its first await.
process_response(status) ==
    /\ pc = "sending"
    /\ response' = [status |-> status, body_read |-> FALSE, body |-> <<>>]
    /\ IF is_success(status)
       THEN /\ pc' = "reading"
            /\ UNCHANGED result
       ELSE /\ result' = Err(status_error(status))
            /\ pc' = "done"
    /\ UNCHANGED <<api_key, auth_token, call, request, sends, clientVars>>

\* The body deserialized, and of an object only its first member returned.
ReadJson_first_member(body) ==
    /\ pc = "reading"
    /\ response' = [response EXCEPT !.body_read = TRUE, !.body = body]
    /\ LET json == response_json(body) IN
       result' = IF ~json.ok THEN Err(reqwest_error("decode"))
                 ELSE IF json.val.t = "obj" /\ json.val.items # <<>>
                      THEN Ok(json.val.items[1])
                 ELSE Ok(json.val)
    /\ pc' = "done"
    /\ UNCHANGED <<api_key, auth_token, call, request, sends, clientVars>>

\* The body deserialized, with null standing in for a body that does not
\* parse.
ReadJson_default(body) ==
    /\ pc = "reading"
    /\ response' = [response EXCEPT !.body_read = TRUE, !.body = body]
    /\ LET json == response_json(body) IN
       result' = IF json.ok THEN Ok(json.val) ELSE Ok(JNull)
    /\ pc' = "done"
    /\ UNCHANGED <<api_key, auth_token, call, request, sends, clientVars>>

\* response.json().await: the body arrives whole and is deserialized.
ReadJson(body) ==
    /\ pc = "reading"
    /\ response' = [response EXCEPT !.body_read = TRUE, !.body = body]
    /\ LET json == response_json(body) IN
       result' = IF json.ok THEN Ok(json.val) ELSE Err(reqwest_error("decode"))
    /\ pc' = "done"
    /\ UNCHANGED <<api_key, auth_token, call, request, sends, clientVars>>

\* response.json().await: the connection fails while the body is read.
ReadFails ==
    /\ pc = "reading"
    /\ result' = Err(reqwest_error("body"))
    /\ pc' = "done"
    /\ UNCHANGED <<api_key, auth_token, call, request, sends, response, clientVars>>

\* The call has returned; the gateway is ready for the next one.
Return ==
    /\ pc = "done"
    /\ pc' = "idle"
    /\ call' = NoCall
    /\ request' = NoRequest
    /\ sends' = 0
    /\ response' = NoResponse
    /\ result' = NoResult
    /\ UNCHANGED <<api_key, auth_token, clientVars>>

-----------------------------------------------------------------------------
(* Specifications                                                          *)

\* The gateway, constructed with any of the credentials.
Init ==
    /\ \E key \in ApiKeys, token \in AuthTokens : GatewayNew(key, token)
    /\ ClientNew
    /\ url_arg = <<>>

Next ==
    \/ get_user
    \/ \E slug \in VenueSlugs : get_venue(slug)
    \/ \E id \in VenueIds, day \in Days, n \in PartySizes : find_reservation(id, day, n)
    \/ \E c \in Commits, id \in ConfigIds, n \in PartySizes, day \in Days :
          get_reservation_details(c, id, n, day)
    \/ \E t \in BookTokens, p \in PaymentIds : book_reservation(t, p)
    \/ SendFails
    \/ \E status \in Statuses : process_response(status)
    \/ \E body \in Bodies : ReadJson(body)
    \/ ReadFails
    \/ Return

Spec == Init /\ [][Next]_vars

\* The facade, holding any of the URLs.
InitClient ==
    /\ ClientNew
    /\ url_arg \in Urls
    /\ GatewayNew(<<107, 9>>, <<116>>)

NextClient ==
    \/ get_venue_id
    \/ check_reservations
    \/ get_slots

SpecClient == InitClient /\ [][NextClient]_vars

-----------------------------------------------------------------------------
(* Properties of extract_venue_slug, under SpecClient                      *)

\* pat occurs in s at 0-based byte index i.
OccursAt(s, pat, i) ==
    /\ i + Len(pat) <= Len(s)
    /\ \A j \in 1..Len(pat) : s[i + j] = pat[j]

Contains(s, pat) == \E i \in 0..Len(s) : OccursAt(s, pat, i)

FirstOccurrence(s, pat, i) ==
    /\ OccursAt(s, pat, i)
    /\ \A j \in 0..(i - 1) : ~OccursAt(s, pat, j)

HasByte(s, b) == \E i \in 1..Len(s) : s[i] = b

\* get_venue_id has run on url_arg.
SlugExtracted == venue_id = PlaceholderVenueId \/ ~venue_slug.ok

\* url = pre ++ "venues/" ++ slug ++ rest, where "venues/" does not occur
\* earlier, slug holds no '?', and rest is empty or starts with '?'.
IsSlugOf(slug, url) ==
    \E i \in 0..Len(url) :
        /\ FirstOccurrence(url, VenuesMarker, i)
        /\ LET after == SubSeq(url, i + Len(VenuesMarker) + 1, Len(url)) IN
           /\ Len(slug) <= Len(after)
           /\ SubSeq(after, 1, Len(slug)) = slug
           /\ ~HasByte(slug, 63)
           /\ (Len(slug) = Len(after) \/ after[Len(slug) + 1] = 63)

\* C1: for a URL containing "venues/<slug>" optionally followed by "?...",
\* extract_venue_slug returns exactly <slug>, everything after the marker up
\* to but not including the next '?' or the end of the string; for a URL
\* without "venues/" it returns the empty string.
C1_SlugExtraction ==
    SlugExtracted =>
        /\ venue_slug.ok
        /\ IF Contains(url_arg, VenuesMarker)
           THEN IsSlugOf(venue_slug.val, url_arg)
           ELSE venue_slug.val = <<>>

\* The documented example: ".../venues/abc-bistro?date=2024-01-01" gives
\* "abc-bistro".
C1_Witness ==
    /\ SlugExtracted
    /\ Len(url_arg) = 60
    /\ Contains(url_arg, VenuesMarker)
    /\ HasByte(url_arg, 63)
    /\ venue_slug.val = <<97, 98, 99, 45, 98, 105, 115, 116, 114, 111>>

\* C10: for every input, extract_venue_slug does not fail (the slice bounds
\* lie within the string, on character boundaries), and returns a contiguous
\* substring of the URL without '?'; it starts immediately after the first
\* "venues/", so later occurrences of "venues/", '#' and '/' stay in it.
C10_SlugIsSafeSubstring ==
    SlugExtracted =>
        /\ venue_slug.ok
        /\ ~HasByte(venue_slug.val, 63)
        /\ Contains(url_arg, venue_slug.val)
        /\ \A i \in 0..Len(url_arg) :
              FirstOccurrence(url_arg, VenuesMarker, i) =>
                 LET start == i + Len(VenuesMarker)
                     after == SubSeq(url_arg, start + 1, Len(url_arg))
                 IN  /\ OccursAt(url_arg, venue_slug.val, start)
                     /\ ~HasByte(after, 63) => venue_slug.val = after

\* A URL with two markers, a fragment and a non-ASCII character: the second
\* marker, the '#' and the "é" are all part of the slug.
C10_Witness ==
    /\ SlugExtracted
    /\ venue_slug.ok
    /\ Contains(venue_slug.val, VenuesMarker)
    /\ HasByte(venue_slug.val, 35)
    /\ HasByte(venue_slug.val, 195)

-----------------------------------------------------------------------------
(* Properties of the gateway, under Spec                                   *)

Operations ==
    {"get_user", "get_venue", "find_reservation", "get_reservation_details",
     "book_reservation"}

\* A response has arrived for the current call.
Responded == response.status # 0
Is2xx     == response.status >= 200 /\ response.status <= 299

\* msg holds three consecutive decimal digits that spell n.
ContainsCode(msg, n) ==
    \E i \in 1..(Len(msg) - 2) :
        /\ \A k \in 0..2 : msg[i + k] >= 48 /\ msg[i + k] <= 57
        /\ 100 * (msg[i] - 48) + 10 * (msg[i + 1] - 48) + (msg[i + 2] - 48) = n

\* C2: for every operation and every response whose status is not 2xx, the
\* call returns an error whose message contains the numeric status code, and
\* the body is never read, parsed or returned as a value.
C2_NonSuccessIsError ==
    (Responded /\ ~Is2xx) =>
        /\ call.op \in Operations
        /\ pc = "done"
        /\ result.tag = "Err"
        /\ result.err.type = "ResyAPIError"
        /\ ContainsCode(result.err.message, response.status)
        /\ ~response.body_read

C2_Witness ==
    /\ pc = "done"
    /\ call.op = "find_reservation"
    /\ response.status = 404
    /\ result.tag = "Err"

\* The JSON values a body of the model may spell.
ModelValues == JsonValues(MaxJsonDepth)

\* The text of each of them.
TextOf == [v \in ModelValues |-> Serialize(v)]

\* The body is the text of some JSON value.
WellFormed(body) == \E v \in ModelValues : TextOf[v] = body

\* The body of a 2xx response has been read and the call has returned.
BodyHandled == pc = "done" /\ Responded /\ Is2xx /\ response.body_read

C4_MalformedIsParseError ==
    (BodyHandled /\ ~WellFormed(response.body)) =>
        /\ call.op \in Operations
        /\ result.tag = "Err"
        /\ result.err.type = "reqwest::Error"
        /\ result.err.kind = "decode"

\* A truncated object, and an empty body, on a 2xx status.
C4_Witness ==
    /\ BodyHandled
    /\ call.op = "get_user"
    /\ response.body \in {<<"{", "\"a\"", ":">>, <<>>}
    /\ result.tag = "Err"

\* A request has been handed to send().
RequestSent == request.method # "none"

\* C5: every outgoing request, whichever operation issues it, carries
\* Authorization: ResyAPI api_key="<key>" and x-resy-auth-token: <token>,
\* with the key and the token the gateway was constructed with.
C5_RequiredHeaders ==
    RequestSent =>
        /\ call.op \in Operations
        /\ "authorization" \in DOMAIN request.headers
        /\ "x-resy-auth-token" \in DOMAIN request.headers
        /\ request.headers["authorization"] = ApiKeyPrefix \o api_key \o <<34>>
        /\ request.headers["x-resy-auth-token"] = auth_token

\* The JSON-bodied operation, whose builder also adds a content type.
C5_Witness ==
    /\ RequestSent
    /\ pc = "sending"
    /\ call.op = "get_reservation_details"
    /\ "content-type" \in DOMAIN request.headers
    /\ api_key = <<195, 169>>

Count(s, b) == Cardinality({i \in 1..Len(s) : s[i] = b})

IsHex(c) == (c >= 48 /\ c <= 57) \/ (c >= 65 /\ c <= 70)
HexVal(c) == IF c <= 57 THEN c - 48 ELSE c - 55

\* A form value: unreserved bytes and %XX escapes only.
RECURSIVE IsPercentEncoded(_)
IsPercentEncoded(e) ==
    IF e = <<>> THEN TRUE
    ELSE IF Head(e) = 37
         THEN /\ Len(e) >= 3
              /\ IsHex(e[2])
              /\ IsHex(e[3])
              /\ IsPercentEncoded(SubSeq(e, 4, Len(e)))
    ELSE /\ Head(e) \notin {38, 61, 32, 43, 35, 63, 47}
         /\ Head(e) < 128
         /\ IsPercentEncoded(Tail(e))

\* What a form decoder makes of a percent-encoded value.
RECURSIVE PercentDecode(_)
PercentDecode(e) ==
    IF e = <<>> THEN <<>>
    ELSE IF Head(e) = 37
         THEN <<16 * HexVal(e[2]) + HexVal(e[3])>> \o PercentDecode(SubSeq(e, 4, Len(e)))
    ELSE <<Head(e)>> \o PercentDecode(Tail(e))

\* The integer a JSON number text denotes: an optional '-', then digits
\* without a leading zero.
IsJsonInt(d) ==
    LET ds == IF d # <<>> /\ Head(d) = 45 THEN Tail(d) ELSE d IN
    /\ ds # <<>>
    /\ \A i \in 1..Len(ds) : ds[i] >= 48 /\ ds[i] <= 57
    /\ (Len(ds) > 1 => ds[1] # 48)

RECURSIVE NatOf(_)
NatOf(ds) == IF ds = <<>> THEN 0 ELSE 10 * NatOf(SubSeq(ds, 1, Len(ds) - 1)) + (ds[Len(ds)] - 48)

JsonIntOf(d) == IF Head(d) = 45 THEN 0 - NatOf(Tail(d)) ELSE NatOf(d)

\* body is  book_token=<e>&struct_payment_method={"id":<d>}  where <e> is a
\* percent-encoded value decoding to the token and <d> is the text of id.
IsBookingForm(body, token, id) ==
    /\ Count(body, 38) = 1
    /\ Count(body, 61) = 2
    /\ LET amp    == CHOOSE i \in 1..Len(body) : body[i] = 38
           field1 == SubSeq(body, 1, amp - 1)
           field2 == SubSeq(body, amp, Len(body))
           e      == SubSeq(field1, Len(BookTokenField) + 1, Len(field1))
           d      == SubSeq(field2, Len(PaymentField) + 1, Len(field2) - 1)
       IN  /\ Len(field1) >= Len(BookTokenField)
           /\ SubSeq(field1, 1, Len(BookTokenField)) = BookTokenField
           /\ IsPercentEncoded(e)
           /\ PercentDecode(e) = token
           /\ Len(field2) >= Len(PaymentField) + 2
           /\ SubSeq(field2, 1, Len(PaymentField)) = PaymentField
           /\ field2[Len(field2)] = 125
           /\ IsJsonInt(d)
           /\ JsonIntOf(d) = id

\* C6: book_reservation's request body is
\* book_token=<URL-encoded token>&struct_payment_method={"id":<payment id>}:
\* no raw '&' or '=' of the token splits or adds a form field, the encoded
\* token decodes to the token, and the payment id stands verbatim in the
\* JSON fragment.
C6_BookingBody ==
    (RequestSent /\ call.op = "book_reservation") =>
        /\ request.method = "POST"
        /\ request.body.kind = "raw"
        /\ IsBookingForm(request.body.data, call.book_token, call.payment_id)

\* The token "&=" with the payment id -12.
C6_Witness ==
    /\ pc = "sending"
    /\ call.op = "book_reservation"
    /\ call.book_token = <<38, 61>>
    /\ call.payment_id = -12
    /\ request.body.kind = "raw"

C8_SingleErrorKind ==
    (pc = "done" /\ result.tag = "Err") => result.err.type = "ResyAPIError"

\* C8 as the code has it: a failure is a ResyAPIError exactly when it comes
\* from a non-2xx status, and then its message is "API request failed: "
\* followed by the status; a failure to send, to read the body or to parse
\* it is the underlying reqwest::Error, not converted.
C8_ErrorKinds ==
    (pc = "done" /\ result.tag = "Err") =>
        /\ result.err.type \in {"ResyAPIError", "reqwest::Error"}
        /\ result.err.type = "ResyAPIError" <=> (Responded /\ ~Is2xx)
        /\ result.err.type = "ResyAPIError" =>
              /\ SubSeq(result.err.message, 1, Len(FailedPrefix)) = FailedPrefix
              /\ ContainsCode(result.err.message, response.status)
        /\ result.err.type = "reqwest::Error" =>
              \/ result.err.kind = "request" /\ ~Responded
              \/ result.err.kind \in {"body", "decode"} /\ Responded /\ Is2xx

C8_Witness ==
    /\ pc = "done"
    /\ result.tag = "Err"
    /\ result.err.type = "reqwest::Error"
    /\ result.err.kind = "request"
    /\ call.op = "get_user"

\* Both credentials are valid header values.
CredentialsValid ==
    \A i \in 1..Len(api_key \o auth_token) :
        LET b == (api_key \o auth_token)[i] IN (b >= 32 /\ b # 127) \/ b = 9

\* C9: when the API key or the auth token is not a valid header value, every
\* operation panics while the headers are built: it returns nothing, neither
\* Ok nor Err, and no request is sent.
C9_InvalidCredentialsPanic ==
    ~CredentialsValid =>
        /\ pc \in {"idle", "panicked"}
        /\ pc = "panicked" <=> call.op \in Operations
        /\ ~RequestSent
        /\ sends = 0
        /\ result.tag = "none"

\* A valid key with a token holding DEL.
C9_Witness ==
    /\ pc = "panicked"
    /\ call.op = "book_reservation"
    /\ api_key = <<107, 9>>
    /\ auth_token = <<116, 127>>
    /\ ~RequestSent

=============================================================================
